---- MODULE Spec2Model ----
(***************************************************************************)
(* A model of aidbox/lib.py: the Aidbox client with its schema cache, the  *)
(* schema-validated AidboxResource, AidboxReference, and the lazy          *)
(* AidboxSearchSet.  The HTTP server is the environment: every reply it    *)
(* gives is an input chosen from a small set.                              *)
(*                                                                         *)
(* Python values are records tagged with "kind", so that None, strings,    *)
(* dicts, resources and references can be told apart and compared.  A      *)
(* path "Patient/5" is the tuple of its segments; a dict is a function     *)
(* whose domain is its set of keys.                                        *)
(***************************************************************************)
EXTENDS Naturals, Sequences, FiniteSets, TLC

VARIABLES
    schema,   \* Aidbox.schema: resource type -> set of field names
    res,      \* the AidboxResource object the caller holds
    sets,     \* the AidboxSearchSet objects the caller holds, by handle
    heap,     \* the params dicts of the search sets, by cell
    call,     \* the operation that ran last: what it sent, raised and returned
    fetches,  \* per resource type, the Attribute requests answered 2xx so far
    thr,      \* callers running _fetch_schema step by step on a shared client
    hist      \* what those callers fetched and stored, in order

vars == <<schema, res, sets, heap, call, fetches, thr, hist>>

----------------------------------------------------------------------------
(* Bounds *)

MaxEntries == 2
MaxCallers == 2

----------------------------------------------------------------------------
(* Python values *)

None == [kind |-> "none"]

Str(s) == [kind |-> "str", s |-> s]

\* an opaque dict such as a meta blob; the tag "" is the empty dict {}
Dict(tag) == [kind |-> "dict", s |-> tag]

EmptyDict == Dict("")

\* a parsed JSON object: its keys and their values
Json(m) == [kind |-> "json", m |-> m]

ListVal(items) == [kind |-> "list", items |-> items]

\* an AidboxResource held as a field value: its resource_type and its id
ResVal(t, id) == [kind |-> "resource", resource_type |-> t, id |-> id]

EmptyMap == [k \in {} |-> None]

\* bool(v): None, "" and {} are false, every other object is true
Truthy(v) ==
    CASE v.kind = "none" -> FALSE
      [] v.kind = "str" -> v.s # ""
      [] v.kind = "dict" -> v.s # ""
      [] v.kind = "json" -> DOMAIN v.m # {}
      [] v.kind = "list" -> v.items # <<>>
      [] OTHER -> TRUE

\* dict.get(key, default)
DictGet(m, key, default) == IF key \in DOMAIN m THEN m[key] ELSE default

\* dict.update(kwargs) on a copy
Update(m, kw) ==
    [k \in DOMAIN m \cup DOMAIN kw |-> IF k \in DOMAIN kw THEN kw[k] ELSE m[k]]

Types == {"Patient", "Organization"}

----------------------------------------------------------------------------
(* Aidbox._do_request and _fetch_resource *)

\* the status-code mapping of _do_request.  reply.body is the parsed
\* response after convert_to_underscore, its keys in the local convention;
\* the data of a request is recorded as it was handed to _do_request.
DoRequest(reply) ==
    IF 200 <= reply.status /\ reply.status < 300
    THEN [err |-> "none", body |-> reply.body]
    ELSE IF reply.status = 404 THEN [err |-> "ResourceNotFound", body |-> None]
    ELSE IF reply.status = 403 THEN [err |-> "AuthorizationError", body |-> None]
    ELSE [err |-> "OperationOutcome", body |-> None]

\* one request as the transport saw it, and whether the server answered 2xx
MkReq(method, path, data, params, reply) ==
    [method |-> method, path |-> path, data |-> data, params |-> params,
     ok |-> 200 <= reply.status /\ reply.status < 300]

FetchResource(path, params, reply) ==
    [r |-> DoRequest(reply), req |-> MkReq("get", path, None, params, reply)]

\* replies that carry no body: the three error classes, and an empty 2xx,
\* which a write or a delete may get.  A 2xx reply to a search carries a
\* bundle (an object with "entry", and "total" for a count).
ErrorReplies ==
    {[status |-> s, body |-> None] : s \in {403, 404, 500}}

EmptyReply == [status |-> 200, body |-> None]

----------------------------------------------------------------------------
(* Aidbox._fetch_schema *)

\* inflection.underscore on the attribute names the server uses here
Underscore(w) == IF w = "birthDate" THEN "birth_date" ELSE w

\* a lookup that never trusts the cache
NeedsFetchAlways(cache, t) == TRUE

\* "if not schema": no entry, or an empty one
NeedsFetch(cache, t) == t \notin DOMAIN cache \/ cache[t] = {}

\* the set built from the bundle's Attribute resources, with 'id' added
SchemaOf(bundle) ==
    {Underscore(bundle.entry[i].resource.path[1]) : i \in DOMAIN bundle.entry}
        \cup {"id"}

\* a store that keeps an entry already there (dict.setdefault)
StoreIfAbsent(cache, t, s) ==
    [x \in DOMAIN cache \cup {t} |-> IF x \in DOMAIN cache THEN cache[x] ELSE s]

\* self.schema[resource_type] = schema
StoreSchema(cache, t, s) ==
    [x \in DOMAIN cache \cup {t} |-> IF x = t THEN s ELSE cache[x]]

AttrRequest(t, reply) ==
    FetchResource(<<"Attribute">>, Json([entity |-> t]), reply)

\* the whole of _fetch_schema, run without interruption
FetchSchema(cache, t, reply) ==
    IF ~NeedsFetch(cache, t)
    THEN [cache |-> cache, err |-> "none", reqs |-> <<>>]
    ELSE LET f == AttrRequest(t, reply) IN
         IF f.r.err # "none"
         THEN [cache |-> cache, err |-> f.r.err, reqs |-> <<f.req>>]
         ELSE [cache |-> StoreSchema(cache, t, SchemaOf(f.r.body.m)),
               err |-> "none", reqs |-> <<f.req>>]

\* the Attribute bundles the server may answer with
AttrEntry(path) == [resource |-> [path |-> path]]

AttrBundles ==
    { [entry |-> <<AttrEntry(<<"name">>), AttrEntry(<<"name", "given">>)>>],
      [entry |-> <<AttrEntry(<<"name">>), AttrEntry(<<"meta">>),
                   AttrEntry(<<"birthDate">>)>>] }

AttrReplies ==
    {[status |-> 200, body |-> Json(b)] : b \in AttrBundles} \cup ErrorReplies

----------------------------------------------------------------------------
(* AidboxReference *)

\* AidboxReference.__init__: display and resource default to None
MkReference(t, id, kwargs) ==
    [kind |-> "reference", resource_type |-> t, id |-> id,
     display |-> DictGet(kwargs, "display", None),
     resource |-> DictGet(kwargs, "resource", None)]

RefAttrs == {"id", "resource_type", "display", "resource"}

\* AidboxReference.to_dict: only the attributes whose value is true
ReferenceToDict(ref) ==
    Json([a \in {x \in RefAttrs : Truthy(ref[x])} |-> ref[a]])

----------------------------------------------------------------------------
(* AidboxResource *)

\* the object the caller holds; live is FALSE before the first construction
NoRes ==
    [live |-> FALSE, resource_type |-> "", data |-> EmptyMap, meta |-> EmptyDict]

\* dir(self): the class attributes and methods, and the instance attributes
\* __init__ sets, which are the same names
DirNames ==
    {"aidbox", "resource_type", "_data", "_meta", "root_attrs", "get_path",
     "save", "delete", "reference", "to_dict"}

\* root_attrs: the cached schema of the resource's type
RootAttrs(cache, obj) == cache[obj.resource_type]

\* an assignment that skips the schema test
SetAttrUnchecked(cache, obj, key, value) ==
    IF key \in DirNames
    THEN [err |-> "none",
          obj |-> IF key = "resource_type"
                  THEN [obj EXCEPT !.resource_type = value] ELSE obj]
    ELSE [err |-> "none",
          obj |-> [obj EXCEPT !.data = Update(obj.data, [k \in {key} |-> value])]]

\* __setattr__: a name of dir(self) is set on the object itself, a schema
\* name goes to _data, any other name is refused.  Of the names of
\* dir(self) only resource_type is ever assigned here.
SetAttr(cache, obj, key, value) ==
    IF key \in DirNames
    THEN [err |-> "none",
          obj |-> IF key = "resource_type"
                  THEN [obj EXCEPT !.resource_type = value] ELSE obj]
    ELSE IF key \in RootAttrs(cache, obj)
    THEN [err |-> "none",
          obj |-> [obj EXCEPT !.data = Update(obj.data, [k \in {key} |-> value])]]
    ELSE [err |-> "FieldNotInSchema", obj |-> obj]

\* __getattr__, reached for every name that is not an attribute of the object
GetAttr(cache, obj, key) ==
    IF key \in RootAttrs(cache, obj)
    THEN [err |-> "none", value |-> DictGet(obj.data, key, None)]
    ELSE [err |-> "FieldNotInSchema", value |-> None]

\* self.id: 'id' is in every schema, so this is _data.get('id')
IdOf(cache, obj) == GetAttr(cache, obj, "id").value

\* get_path
GetPath(cache, obj) ==
    IF Truthy(IdOf(cache, obj))
    THEN <<obj.resource_type, IdOf(cache, obj)>>
    ELSE <<obj.resource_type>>

\* __init__: the schema is fetched, meta is popped into _meta, and every
\* other keyword goes through __setattr__; a refused one raises unless
\* skip_validation.  The object of a raising constructor is lost, so the
\* order of the keywords does not show.
NewResource(cache, skip, kw, reply) ==
    LET t == kw["resource_type"]
        f == FetchSchema(cache, t, reply)
        keys == DOMAIN kw \ {"meta"}
        refused == {k \in keys : k \notin DirNames /\ k \notin f.cache[t]}
        stored == {k \in keys : k \notin DirNames /\ k \in f.cache[t]}
    IN  IF f.err # "none"
        THEN [cache |-> f.cache, err |-> f.err, reqs |-> f.reqs, obj |-> NoRes]
        ELSE IF ~skip /\ refused # {}
        THEN [cache |-> f.cache, err |-> "FieldNotInSchema", reqs |-> f.reqs,
              obj |-> NoRes]
        ELSE [cache |-> f.cache, err |-> "none", reqs |-> f.reqs,
              obj |-> [live |-> TRUE, resource_type |-> t,
                       data |-> [k \in stored |-> kw[k]],
                       meta |-> DictGet(kw, "meta", EmptyDict)]]

\* reference(): a Reference to this resource's type and id
ResourceReference(item, kwargs) ==
    MkReference(Str(item.resource_type), item.id, kwargs)

\* a conversion that leaves resources and references inline
ConvertFnKeep(item) == item

\* convert_fn of to_dict
ConvertFn(item) ==
    IF item.kind = "resource" THEN ReferenceToDict(ResourceReference(item, EmptyMap))
    ELSE IF item.kind = "reference" THEN ReferenceToDict(item)
    ELSE item

\* utils.convert_values: the function applied to every leaf, through
\* nested lists
RECURSIVE ConvertItem(_)
ConvertItem(v) ==
    IF v.kind = "list"
    THEN ListVal([i \in DOMAIN v.items |-> ConvertItem(v.items[i])])
    ELSE ConvertFn(v)

ConvertValues(data) == [k \in DOMAIN data |-> ConvertItem(data[k])]

\* to_dict
ToDict(obj) == ConvertValues(obj.data)

\* save: put or post at get_path() with the serialized fields, then
\* self.meta and self.id are assigned from the response
Save(cache, obj, reply) ==
    LET r == DoRequest(reply)
        req == MkReq(IF Truthy(IdOf(cache, obj)) THEN "put" ELSE "post",
                     GetPath(cache, obj), Json(ToDict(obj)), None, reply)
    IN  IF r.err # "none"
        THEN [err |-> r.err, reqs |-> <<req>>, obj |-> obj]
        ELSE IF r.body.kind # "json"
        THEN [err |-> "AttributeError", reqs |-> <<req>>, obj |-> obj]
        ELSE LET m == SetAttr(cache, obj, "meta",
                              DictGet(r.body.m, "meta", EmptyDict))
             IN  IF m.err # "none"
                 THEN [err |-> m.err, reqs |-> <<req>>, obj |-> m.obj]
                 ELSE LET i == SetAttr(cache, m.obj, "id",
                                       DictGet(r.body.m, "id", None))
                      IN  [err |-> i.err, reqs |-> <<req>>, obj |-> i.obj]

\* delete: the raw transport result; nothing local changes
Delete(cache, obj, reply) ==
    LET r == DoRequest(reply)
        req == MkReq("delete", GetPath(cache, obj), None, None, reply)
    IN  [err |-> r.err, reqs |-> <<req>>, result |-> r.body]

----------------------------------------------------------------------------
(* AidboxSearchSet *)

\* The caller keeps two search sets, in the handles "a" and "b": a method
\* touches its receiver and the set it returns, and nothing else.
Slots == {"a", "b"}

\* the cells "a" and "b" hold the params dicts of the sets in the handles;
\* the other two hold those of the sets a terminal method builds and drops
TempA == "t1"

TempB == "t2"

Cells == Slots \cup {TempA, TempB}

NoSet == [live |-> FALSE, resource_type |-> "", cell |-> TempA]

\* no copy: the new set shares the receiver's dict
DeepCopyAlias(src, fresh) == src

\* copy.deepcopy(self.params): the copy lives in a fresh cell
DeepCopy(src, fresh) == fresh

\* clone, and __init__'s "params if params else {}": the new set's cell and
\* the heap after new_params.update(kwargs)
CloneCells(h, src, fresh, kw) ==
    LET c == DeepCopy(src, fresh)
        h1 == [h EXCEPT ![c] = Update(h[src], kw)]
    IN  IF h1[c] = EmptyMap
        THEN [heap |-> [h1 EXCEPT ![fresh] = EmptyMap], cell |-> fresh]
        ELSE [heap |-> h1, cell |-> c]

\* ','.join(keys) on the key lists used here
JoinComma(items) ==
    IF items = <<"name", "id">> THEN "name,id"
    ELSE IF Len(items) = 1 THEN items[1] ELSE ""

\* sort: a list of keys is joined, a string is taken as it is
SortKeys(keys) == IF keys.kind = "list" THEN JoinComma(keys.items) ELSE keys.s

\* the keyword each mutator hands to clone
LimitKw(n) == [k \in {"_count"} |-> n]

PageKw(n) == [k \in {"_page"} |-> n]

SortKw(keys) == [k \in {"_sort"} |-> SortKeys(keys)]

\* a filter that keeps every entry
KeepAll(data, t) == TRUE

\* the entries execute keeps: those whose resource_type is the set's
Keeps(data, t) == "resource_type" \in DOMAIN data /\ data["resource_type"] = t

\* execute: one search request, then a trusted resource per kept entry.
\* Only the first construction can fetch the schema.
ExecuteSet(cache, t, params, sreply, areply) ==
    LET f == FetchResource(<<t>>, Json(params), sreply)
        fail(e, c, rq) ==
            [cache |-> c, err |-> e, reqs |-> rq, result |-> <<>>,
             body |-> f.r.body]
    IN  IF f.r.err # "none" THEN fail(f.r.err, cache, <<f.req>>)
        ELSE LET all == [i \in DOMAIN f.r.body.m.entry |->
                            f.r.body.m.entry[i].resource]
                 IsKept(d) == Keeps(d, t)
                 kept == SelectSeq(all, IsKept)
             IN  IF kept = <<>>
                 THEN [cache |-> cache, err |-> "none", reqs |-> <<f.req>>,
                       result |-> <<>>, body |-> f.r.body]
                 ELSE LET n1 == NewResource(cache, TRUE, kept[1], areply)
                      IN  IF n1.err # "none"
                          THEN fail(n1.err, n1.cache, <<f.req>> \o n1.reqs)
                          ELSE [cache |-> n1.cache, err |-> "none",
                                reqs |-> <<f.req>> \o n1.reqs,
                                result |-> [i \in DOMAIN kept |->
                                    NewResource(n1.cache, TRUE, kept[i],
                                                areply).obj],
                                body |-> f.r.body]

\* an iteration that sends nothing
IterateCached(cache, t, params, sreply, areply) ==
    [cache |-> cache, err |-> "none", reqs |-> <<>>, result |-> <<>>,
     body |-> None]

\* __iter__: iter(self.execute())
Iterate(cache, t, params, sreply, areply) ==
    ExecuteSet(cache, t, params, sreply, areply)

\* count: a copy of the params with _count and _totalMethod forced
CountKw == [k \in {"_count", "_totalMethod"} |-> IF k = "_count" THEN 1 ELSE "count"]

CountSet(t, params, sreply) ==
    LET f == FetchResource(<<t>>, Json(params), sreply)
    IN  IF f.r.err # "none"
        THEN [err |-> f.r.err, reqs |-> <<f.req>>, result |-> None]
        ELSE [err |-> "none", reqs |-> <<f.req>>,
              result |-> [kind |-> "int", n |-> f.r.body.m.total]]

\* first: result[0] if result else None, of limit(1).execute()
FirstOf(x) ==
    [cache |-> x.cache, err |-> x.err, reqs |-> x.reqs, body |-> x.body,
     result |-> IF x.err = "none" /\ x.result # <<>> THEN x.result[1] ELSE NoRes]

\* get: the first of search(_id=id), or ResourceNotFound
GetOf(x) ==
    IF x.err = "none" /\ ~x.result.live
    THEN [x EXCEPT !.err = "ResourceNotFound"]
    ELSE x

----------------------------------------------------------------------------
(* What the server and the caller may supply *)

SeqsUpTo(S, n) == UNION {[1..k -> S] : k \in 0..n}

PatA ==
    [resource_type |-> "Patient", id |-> Str("5"), name |-> Str("john"),
     meta |-> Dict("m1"), age |-> Str("x")]

PatB == [resource_type |-> "Patient", id |-> Str("7"), name |-> Str("john")]

OrgA == [resource_type |-> "Organization", id |-> Str("5"), name |-> Str("john")]

Payloads == {PatA, PatB, OrgA}

Bundle(ps) == [entry |-> [i \in DOMAIN ps |-> [resource |-> ps[i]]], total |-> Len(ps)]

Denied == [status |-> 403, body |-> None]

SearchReplies(P, n) ==
    {[status |-> 200, body |-> Json(Bundle(ps))] : ps \in SeqsUpTo(P, n)}
        \cup {Denied}

\* the reply to the Attribute request; none is read when the schema is cached
AttrChoices(cache, t) == IF NeedsFetch(cache, t) THEN AttrReplies ELSE {Denied}

\* fewer of them, for the operations on search sets
NamedOnly == [entry |-> <<AttrEntry(<<"name">>), AttrEntry(<<"name", "given">>)>>]

MetaOnly == [entry |-> <<AttrEntry(<<"meta">>)>>]

AttrBrief(cache, t) ==
    IF NeedsFetch(cache, t)
    THEN {[status |-> 200, body |-> Json(NamedOnly)], Denied}
    ELSE {Denied}

\* and with a schema that lacks "name", for first()
AttrFirst(cache, t) ==
    IF NeedsFetch(cache, t)
    THEN {[status |-> 200, body |-> Json(NamedOnly)],
          [status |-> 200, body |-> Json(MetaOnly)], Denied}
    ELSE {Denied}

\* the body a create or update is answered with
SaveBodies == {[id |-> Str("5"), meta |-> Dict("m1")], [id |-> Str("7")]}

SaveReplies ==
    {[status |-> 201, body |-> Json(b)] : b \in SaveBodies}
        \cup ErrorReplies \cup {EmptyReply}

DeleteReplies == {[status |-> 404, body |-> None], EmptyReply}

\* values a caller assigns to the field "name"
NameValues ==
    { Str("john"),
      ResVal("Organization", Str("5")),
      MkReference(Str("Patient"), Str("5"), [display |-> Str("d")]),
      ListVal(<<ResVal("Patient", None),
                MkReference(Str("Patient"), Str("7"), [display |-> Str("")]),
                Str("x")>>) }

\* the fields a caller reads and writes, and the values written
FieldNames == {"id", "name", "meta", "age"}

FieldValues(k) ==
    CASE k = "name" -> NameValues
      [] k = "id" -> {Str("5")}
      [] k = "meta" -> {Dict("m1")}
      [] OTHER -> {Str("x")}

\* client.resource(resource_type, **kwargs): the type and the keywords
ResourceArgs ==
    { <<"Patient", EmptyMap>>,
      <<"Patient", [id |-> Str("5"), name |-> ResVal("Organization", Str("5"))]>>,
      <<"Patient", [name |-> Str("john"), age |-> Str("x")]>>,
      <<"Patient", [name |-> ListVal(<<ResVal("Patient", None), Str("x")>>),
                    meta |-> Dict("m1")]>>,
      <<"Organization", [name |-> Str("john")]>> }

----------------------------------------------------------------------------
(* The record of the last operation *)

Callers == 1..MaxCallers

IdleCaller == [pc |-> "idle", rtype |-> "", local |-> {}]

Call(op, target, dst, key, arg, reqs, body, err, result) ==
    [op |-> op, target |-> target, dst |-> dst, key |-> key, arg |-> arg,
     reqs |-> reqs, body |-> body, err |-> err, result |-> result]

\* the Attribute requests among reqs that were answered 2xx, for type t
AttrFetched(reqs, t) ==
    {i \in DOMAIN reqs : /\ reqs[i].path = <<"Attribute">>
                         /\ reqs[i].params.m.entity = t
                         /\ reqs[i].ok}

Tally(reqs) == [t \in Types |-> fetches[t] + Cardinality(AttrFetched(reqs, t))]

Init ==
    /\ schema = EmptyMap
    /\ res = NoRes
    /\ sets = [s \in Slots |-> NoSet]
    /\ heap = [c \in Cells |-> EmptyMap]
    /\ call = Call("init", "", "", "", None, <<>>, None, "none", None)
    /\ fetches = [t \in Types |-> 0]
    /\ thr = [c \in Callers |-> IdleCaller]
    /\ hist = [stores |-> <<>>, fetched |-> {}]

----------------------------------------------------------------------------
(* Operations on the resource the caller holds *)

\* res = client.resource(t, **kw); a raising constructor leaves res as it was
Construct(t, kw, areply) ==
    \E n \in {NewResource(schema, FALSE,
                            Update(kw, [k \in {"resource_type"} |-> t]), areply)} :
        /\ schema' = n.cache
        /\ fetches' = Tally(n.reqs)
        /\ res' = IF n.err = "none" THEN n.obj ELSE res
        /\ call' = Call("construct", "", "", t, None, n.reqs, None, n.err, None)
        /\ UNCHANGED <<sets, heap, thr, hist>>

\* res.<k> = v
SetField(k, v) ==
    /\ res.live
    /\ \E r \in {SetAttr(schema, res, k, v)} :
           /\ res' = r.obj
           /\ call' = Call("set_field", "", "", k, v, <<>>, None, r.err, None)
    /\ UNCHANGED <<schema, sets, heap, fetches, thr, hist>>

\* res.<k>
GetField(k) ==
    /\ res.live
    /\ \E r \in {GetAttr(schema, res, k)} :
           call' = Call("get_field", "", "", k, None, <<>>, None, r.err, r.value)
    /\ UNCHANGED <<schema, res, sets, heap, fetches, thr, hist>>

\* res.save()
SaveRes(reply) ==
    /\ res.live
    /\ \E r \in {Save(schema, res, reply)} :
           /\ res' = r.obj
           /\ call' = Call("save", "", "", "", None, r.reqs, DoRequest(reply).body,
                           r.err, None)
    /\ UNCHANGED <<schema, sets, heap, fetches, thr, hist>>

\* res.delete()
DeleteRes(reply) ==
    /\ res.live
    /\ \E r \in {Delete(schema, res, reply)} :
           call' = Call("delete", "", "", "", None, r.reqs, None, r.err, r.result)
    /\ UNCHANGED <<schema, res, sets, heap, fetches, thr, hist>>

\* res.to_dict()
Serialize ==
    /\ res.live
    /\ call' = Call("to_dict", "", "", "", None, <<>>, None, "none",
                    Json(ToDict(res)))
    /\ UNCHANGED <<schema, res, sets, heap, fetches, thr, hist>>

\* res = client.resources(t).first(), kept when it is not None
FetchFirst(t, sreply, areply) ==
    \E x \in {FirstOf(ExecuteSet(schema, t, LimitKw(1), sreply, areply))} :
        /\ schema' = x.cache
        /\ fetches' = Tally(x.reqs)
        /\ res' = IF x.err = "none" /\ x.result.live THEN x.result ELSE res
        /\ call' = Call("fetch_first", "", "", t, None, x.reqs, None, x.err, None)
        /\ UNCHANGED <<sets, heap, thr, hist>>

----------------------------------------------------------------------------
(* Operations on the search sets the caller holds *)

Params(s) == heap[sets[s].cell]

DropTemps(h) == [h EXCEPT ![TempA] = EmptyMap, ![TempB] = EmptyMap]

\* d = client.resources(t)
Resources(t, d) ==
    /\ sets' = [sets EXCEPT ![d] = [live |-> TRUE, resource_type |-> t, cell |-> d]]
    /\ heap' = [heap EXCEPT ![d] = EmptyMap]
    /\ call' = Call("resources", "", d, t, None, <<>>, None, "none", None)
    /\ UNCHANGED <<schema, res, fetches, thr, hist>>

\* d = s.clone(**kw), and search, limit, page and sort, which call it
Mutate(op, s, d, kw) ==
    /\ sets[s].live
    /\ d # s
    /\ \E c \in {CloneCells(heap, sets[s].cell, d, kw)} :
           /\ heap' = c.heap
           /\ sets' = [sets EXCEPT ![d] = [live |-> TRUE,
                          resource_type |-> sets[s].resource_type, cell |-> c.cell]]
    /\ call' = Call(op, s, d, "", Json(kw), <<>>, None, "none", None)
    /\ UNCHANGED <<schema, res, fetches, thr, hist>>

\* s.execute()
Execute(s, sreply, areply) ==
    /\ sets[s].live
    /\ \E x \in {ExecuteSet(schema, sets[s].resource_type, Params(s), sreply, areply)} :
           /\ schema' = x.cache
           /\ fetches' = Tally(x.reqs)
           /\ call' = Call("execute", s, "", "", None, x.reqs, x.body, x.err, x.result)
    /\ UNCHANGED <<res, sets, heap, thr, hist>>

\* list(s)
Iter(s, sreply, areply) ==
    /\ sets[s].live
    /\ \E x \in {Iterate(schema, sets[s].resource_type, Params(s), sreply, areply)} :
           /\ schema' = x.cache
           /\ fetches' = Tally(x.reqs)
           /\ call' = Call("iter", s, "", "", None, x.reqs, x.body, x.err, x.result)
    /\ UNCHANGED <<res, sets, heap, thr, hist>>

\* s.count()
Count(s, sreply) ==
    /\ sets[s].live
    /\ \E c \in {CloneCells(heap, sets[s].cell, TempA, CountKw)} :
       \E x \in {CountSet(sets[s].resource_type, c.heap[c.cell], sreply)} :
           /\ heap' = DropTemps(c.heap)
           /\ call' = Call("count", s, "", "", None, x.reqs, None, x.err, x.result)
    /\ UNCHANGED <<schema, res, sets, fetches, thr, hist>>

\* s.first()
First(s, sreply, areply) ==
    /\ sets[s].live
    /\ \E c \in {CloneCells(heap, sets[s].cell, TempA, LimitKw(1))} :
       \E x \in {FirstOf(ExecuteSet(schema, sets[s].resource_type,
                                    c.heap[c.cell], sreply, areply))} :
           /\ heap' = DropTemps(c.heap)
           /\ schema' = x.cache
           /\ fetches' = Tally(x.reqs)
           /\ call' = Call("first", s, "", "", None, x.reqs, x.body, x.err, x.result)
    /\ UNCHANGED <<res, sets, thr, hist>>

\* s.get(id)
Get(s, id, sreply, areply) ==
    /\ sets[s].live
    /\ \E c1 \in {CloneCells(heap, sets[s].cell, TempA, [k \in {"_id"} |-> id])} :
       \E c2 \in {CloneCells(c1.heap, c1.cell, TempB, LimitKw(1))} :
       \E x \in {GetOf(FirstOf(ExecuteSet(schema, sets[s].resource_type,
                                          c2.heap[c2.cell], sreply, areply)))} :
           /\ heap' = DropTemps(c2.heap)
           /\ schema' = x.cache
           /\ fetches' = Tally(x.reqs)
           /\ call' = Call("get", s, "", id, None, x.reqs, x.body, x.err, x.result)
    /\ UNCHANGED <<res, sets, thr, hist>>

\* the replies and keywords the search specification draws from
BriefReplies == SearchReplies({PatA, OrgA}, 1)

SortInputs == {ListVal(<<"name", "id">>), Str("name,id")}

NextSearch ==
    \/ \E d \in Slots : Resources("Patient", d)
    \/ \E s, d \in Slots : Mutate("clone", s, d, [name |-> "john", _page |-> 2])
    \/ \E s, d \in Slots : Mutate("search", s, d, [name |-> "john"])
    \/ \E s, d \in Slots : Mutate("limit", s, d, LimitKw(5))
    \/ \E s, d \in Slots : Mutate("page", s, d, PageKw(2))
    \/ \E s, d \in Slots, keys \in SortInputs : Mutate("sort", s, d, SortKw(keys))
    \/ \E s \in Slots, r \in BriefReplies :
          \E a \in AttrBrief(schema, sets[s].resource_type) : Execute(s, r, a)
    \/ \E s \in Slots, r \in BriefReplies :
          \E a \in AttrBrief(schema, sets[s].resource_type) : Iter(s, r, a)
    \/ \E s \in Slots, r \in BriefReplies : Count(s, r)
    \/ \E s \in Slots, r \in BriefReplies :
          \E a \in AttrBrief(schema, sets[s].resource_type) : First(s, r, a)
    \/ \E s \in Slots, r \in BriefReplies :
          \E a \in AttrBrief(schema, sets[s].resource_type) : Get(s, "5", r, a)

SpecSearch == Init /\ [][NextSearch]_vars

NextResource ==
    \/ \E x \in ResourceArgs :
          \E a \in AttrChoices(schema, x[1]) : Construct(x[1], x[2], a)
    \/ \E k \in FieldNames : \E v \in FieldValues(k) : SetField(k, v)
    \/ \E k \in FieldNames : GetField(k)
    \/ \E r \in SaveReplies : SaveRes(r)
    \/ \E r \in DeleteReplies : DeleteRes(r)
    \/ Serialize
    \/ \E t \in Types, s \in SearchReplies({PatA, OrgA}, 1) :
          \E a \in AttrChoices(schema, t) : FetchFirst(t, s, a)

SpecResource == Init /\ [][NextResource]_vars

\* resources("Patient").search(name="john").limit(1).first(), whatever the
\* server answers
NextFirst ==
    \/ \E d \in Slots : Resources("Patient", d)
    \/ \E s, d \in Slots : Mutate("search", s, d, [name |-> "john"])
    \/ \E s, d \in Slots : Mutate("limit", s, d, LimitKw(1))
    \/ \E s \in Slots, r \in SearchReplies(Payloads, MaxEntries) :
          \E a \in AttrFirst(schema, sets[s].resource_type) : First(s, r, a)

SpecFirst == Init /\ [][NextFirst]_vars

\* one caller, one operation at a time
Next == NextResource \/ NextSearch

Spec == Init /\ [][Next]_vars

----------------------------------------------------------------------------
(* _fetch_schema with several callers on one client: the check, the        *)
(* request and the store are separate steps, and nothing holds a lock      *)
(* between them.                                                           *)

RaceReplies == {[status |-> 200, body |-> Json(b)] : b \in AttrBundles} \cup {Denied}

\* a caller enters _fetch_schema(t)
RaceBegin(c, t) ==
    /\ thr[c].pc = "idle"
    /\ thr' = [thr EXCEPT ![c] = [pc |-> "check", rtype |-> t, local |-> {}]]
    /\ UNCHANGED <<schema, res, sets, heap, call, fetches, hist>>

\* schema = self.schema.get(resource_type, None); if not schema
RaceCheck(c) ==
    /\ thr[c].pc = "check"
    /\ thr' = [thr EXCEPT ![c] =
                  IF NeedsFetch(schema, thr[c].rtype)
                  THEN [@ EXCEPT !.pc = "fetch"]
                  ELSE [@ EXCEPT !.pc = "done", !.local = schema[thr[c].rtype]]]
    /\ UNCHANGED <<schema, res, sets, heap, call, fetches, hist>>

\* bundle = self._fetch_resource('Attribute', ...), and the set built from it
RaceFetch(c, reply) ==
    /\ thr[c].pc = "fetch"
    /\ \E f \in {AttrRequest(thr[c].rtype, reply)} :
           IF f.r.err # "none"
           THEN /\ thr' = [thr EXCEPT ![c].pc = "raised"]
                /\ UNCHANGED hist
           ELSE /\ thr' = [thr EXCEPT ![c].pc = "store",
                                      ![c].local = SchemaOf(f.r.body.m)]
                /\ hist' = [hist EXCEPT !.fetched = @ \cup {c}]
    /\ UNCHANGED <<schema, res, sets, heap, call, fetches>>

\* self.schema[resource_type] = schema; return schema
RaceStore(c) ==
    /\ thr[c].pc = "store"
    /\ schema' = StoreSchema(schema, thr[c].rtype, thr[c].local)
    /\ thr' = [thr EXCEPT ![c].pc = "done"]
    /\ hist' = [hist EXCEPT !.stores = Append(@,
                   [caller |-> c, rtype |-> thr[c].rtype, value |-> thr[c].local])]
    /\ UNCHANGED <<res, sets, heap, call, fetches>>

NextRace ==
    \/ \E c \in Callers, t \in Types : RaceBegin(c, t)
    \/ \E c \in Callers : RaceCheck(c)
    \/ \E c \in Callers, r \in RaceReplies : RaceFetch(c, r)
    \/ \E c \in Callers : RaceStore(c)

SpecRace == Init /\ [][NextRace]_vars

----------------------------------------------------------------------------
(* Properties *)

Mutators == {"clone", "search", "limit", "page", "sort"}

Terminals == {"execute", "iter", "first", "count", "get"}

\* the params a terminal method of a set with params p sends
Sent(op, p, id) ==
    CASE op = "first" -> Update(p, [k \in {"_count"} |-> 1])
      [] op = "count" ->
            Update(p, [k \in {"_count", "_totalMethod"} |->
                          IF k = "_count" THEN 1 ELSE "count"])
      [] op = "get" -> Update(Update(p, [k \in {"_id"} |-> id]),
                              [k \in {"_count"} |-> 1])
      [] OTHER -> p

\* C1: no method of a search set changes its receiver: after every step,
\* each set the caller held (other than the handle the step's result is
\* bound to) has the resource type and the params it had before; a
\* mutator's result has a copy of the receiver's params with the override
\* applied, and a terminal method sends the receiver's own params (with the
\* overrides that method itself adds).
C1_ReceiverNeverMutated ==
    [][ /\ \A s \in Slots :
              sets[s].live /\ call'.dst # s =>
                  /\ sets'[s] = sets[s]
                  /\ heap'[sets'[s].cell] = heap[sets[s].cell]
        /\ call'.op \in Mutators =>
              /\ sets'[call'.dst].live
              /\ sets'[call'.dst].resource_type = sets[call'.target].resource_type
              /\ heap'[sets'[call'.dst].cell]
                    = Update(heap[sets[call'.target].cell], call'.arg.m)
        /\ call'.op \in Terminals =>
              call'.reqs[1].params
                  = Json(Sent(call'.op, heap[sets[call'.target].cell], call'.key))
      ]_vars

\* C1 witness: limit was called on a set that has params, and the receiver
\* still has its own params while the result has the override.
C1_Witness ==
    /\ call.op = "limit"
    /\ Params(call.target) = [name |-> "john"]
    /\ Params(call.dst) = [name |-> "john", _count |-> 5]

\* C2: resources() and the mutators send nothing; execute, iteration,
\* first, count and get each send a search request (a GET on the set's
\* resource type) first, every time they run.
C2_Lazy ==
    /\ call.op \in Mutators \cup {"resources"} => call.reqs = <<>>
    /\ call.op \in Terminals =>
          /\ Len(call.reqs) >= 1
          /\ call.reqs[1].method = "get"
          /\ call.reqs[1].path = <<sets[call.target].resource_type>>
          /\ \A i \in DOMAIN call.reqs :
                i > 1 => call.reqs[i].path = <<"Attribute">>

\* C2 witness: a set built by a chain of mutators was iterated, which sent
\* the one search request and returned a resource.
C2_Witness ==
    /\ call.op = "iter"
    /\ Params(call.target) = [name |-> "john", _page |-> 2, _sort |-> "name,id"]
    /\ call.reqs[1].ok
    /\ call.result # <<>>

\* C3: with one caller at a time, a cached schema entry never changes or
\* disappears, no Attribute request is sent for a cached type, a failed
\* Attribute request leaves the type without an entry, and no type sees
\* more than one Attribute request answered 2xx.
C3_CacheImmutable ==
    /\ [](\A t \in Types : fetches[t] <= 1)
    /\ [][ /\ \A t \in DOMAIN schema :
                 /\ t \in DOMAIN schema'
                 /\ schema'[t] = schema[t]
                 /\ \A i \in DOMAIN call'.reqs :
                       call'.reqs[i].path = <<"Attribute">>
                           => call'.reqs[i].params.m.entity # t
           /\ \A i \in DOMAIN call'.reqs :
                 call'.reqs[i].path = <<"Attribute">> =>
                     (call'.reqs[i].params.m.entity \in DOMAIN schema'
                          <=> call'.reqs[i].ok)
         ]_vars

\* C3 witness: a resource was constructed for a type whose schema was
\* cached by an earlier operation, without any request, while the other
\* type has an entry of its own.
C3_Witness ==
    /\ call.op = "construct"
    /\ call.err = "none"
    /\ call.reqs = <<>>
    /\ DOMAIN schema = Types
    /\ schema["Patient"] # schema["Organization"]
    /\ fetches = [t \in Types |-> 1]

\* the names the claim sets aside: those of the object itself, and meta
C4_Reserved == DirNames \cup {"meta"}

\* C4: for a field name that is not reserved: writing it stores the value
\* when the name is in the schema of the resource's type and otherwise
\* raises FieldNotInSchema and changes nothing; reading it returns the
\* stored value (None when it was never set) when the name is in the
\* schema and otherwise raises FieldNotInSchema; a read that follows a
\* successful write of the same name returns the value written.
C4_SchemaChecked ==
    [][ /\ call'.op = "set_field" /\ call'.key \notin C4_Reserved =>
              IF call'.key \in schema[res.resource_type]
              THEN /\ call'.err = "none"
                   /\ DOMAIN res'.data = DOMAIN res.data \cup {call'.key}
                   /\ res'.data[call'.key] = call'.arg
                   /\ \A k \in DOMAIN res.data \ {call'.key} :
                         res'.data[k] = res.data[k]
              ELSE /\ call'.err = "FieldNotInSchema"
                   /\ res' = res
        /\ call'.op = "get_field" /\ call'.key \notin C4_Reserved =>
              /\ res' = res
              /\ IF call'.key \in schema[res.resource_type]
                 THEN /\ call'.err = "none"
                      /\ call'.result = IF call'.key \in DOMAIN res.data
                                       THEN res.data[call'.key] ELSE None
                      /\ (call.op = "set_field" /\ call.err = "none"
                            /\ call.key = call'.key) => call'.result = call.arg
                 ELSE call'.err = "FieldNotInSchema"
      ]_vars

\* C4 witness: a field outside the schema was refused on a resource that
\* holds a value under a schema name.
C4_Witness ==
    /\ call.op = "set_field"
    /\ call.key = "age"
    /\ call.err = "FieldNotInSchema"
    /\ "name" \in DOMAIN res.data

\* C5 (as claimed): whenever the request of save() is answered 2xx with a
\* response body, save() completes, the resource's id and its separate meta
\* blob are those of the response, and meta is not among the
\* schema-validated fields.
C5_SaveOverwritesIdAndMeta ==
    call.op = "save" /\ call.reqs[1].ok /\ call.body.kind = "json" =>
        /\ call.err = "none"
        /\ DictGet(res.data, "id", None) = DictGet(call.body.m, "id", None)
        /\ res.meta = DictGet(call.body.m, "meta", EmptyDict)
        /\ "meta" \notin DOMAIN res.data

HasId(obj) == "id" \in DOMAIN obj.data /\ obj.data["id"] # None

\* C6 (as claimed): save() posts to <<type>> when the resource has no id
\* and puts to <<type, id>> when it has one; and the save() that follows a
\* create answered 2xx with an id is a put addressed to that id.
C6_SaveRouting ==
    [][ call'.op = "save" =>
            /\ ~HasId(res) =>
                  /\ call'.reqs[1].method = "post"
                  /\ call'.reqs[1].path = <<res.resource_type>>
            /\ HasId(res) =>
                  /\ call'.reqs[1].method = "put"
                  /\ call'.reqs[1].path = <<res.resource_type, res.data["id"]>>
            /\ ( /\ call.op = "save"
                 /\ call.reqs[1].method = "post"
                 /\ call.reqs[1].ok
                 /\ call.body.kind = "json"
                 /\ "id" \in DOMAIN call.body.m ) =>
                  /\ call'.reqs[1].method = "put"
                  /\ call'.reqs[1].path = <<res.resource_type, call.body.m["id"]>>
      ]_vars

\* the entries of a bundle whose resource_type is t
C7_Matches(body, t) ==
    {i \in DOMAIN body.m.entry : body.m.entry[i].resource.resource_type = t}

C7_FirstMatch(body, t) ==
    body.m.entry[CHOOSE i \in C7_Matches(body, t) :
                    \A j \in C7_Matches(body, t) : i <= j].resource

\* the set resources("Patient").search(name="john").limit(1)
C7_JohnOne(s) ==
    /\ sets[s].live
    /\ sets[s].resource_type = "Patient"
    /\ Params(s) = [name |-> "john", _count |-> 1]

\* C7 (as claimed): first() on that set makes exactly one request, with
\* params {name: john, _count: 1}, and returns a Resource with the id and
\* the name of the first matching entry, or None when none matches.
C7_FirstOneRequest ==
    call.op = "first" /\ C7_JohnOne(call.target) =>
        /\ Len(call.reqs) = 1
        /\ call.reqs[1].params = Json([name |-> "john", _count |-> 1])
        /\ call.err = "none" =>
              IF C7_Matches(call.body, "Patient") = {}
              THEN ~call.result.live
              ELSE /\ call.result.live
                   /\ DictGet(call.result.data, "id", None)
                         = C7_FirstMatch(call.body, "Patient").id
                   /\ DictGet(call.result.data, "name", None)
                         = C7_FirstMatch(call.body, "Patient").name

\* C7 (amended): first() on that set sends exactly one search request, the
\* first it makes, with params {name: john, _count: 1}; the only other
\* request it can make is one Attribute request for Patient, made when the
\* schema was not cached and an entry matches.  When it returns, the result
\* is None if no entry matches, and otherwise a Patient resource with the id
\* of the first matching entry, and with that entry's name if "name" is in
\* the Patient schema (and no name otherwise).
C7_FirstOneSearch ==
    call.op = "first" /\ C7_JohnOne(call.target) =>
        /\ Len(call.reqs) \in {1, 2}
        /\ call.reqs[1].method = "get"
        /\ call.reqs[1].path = <<"Patient">>
        /\ call.reqs[1].params = Json([name |-> "john", _count |-> 1])
        /\ Len(call.reqs) = 2 =>
              /\ call.reqs[2].path = <<"Attribute">>
              /\ call.reqs[2].params = Json([entity |-> "Patient"])
              /\ call.reqs[1].ok
              /\ C7_Matches(call.body, "Patient") # {}
        /\ call.err = "none" =>
              IF C7_Matches(call.body, "Patient") = {}
              THEN ~call.result.live
              ELSE /\ call.result.live
                   /\ call.result.resource_type = "Patient"
                   /\ DictGet(call.result.data, "id", None)
                         = C7_FirstMatch(call.body, "Patient").id
                   /\ IF "name" \in schema["Patient"]
                      THEN DictGet(call.result.data, "name", None)
                              = C7_FirstMatch(call.body, "Patient").name
                      ELSE "name" \notin DOMAIN call.result.data

\* C7 witness: first() on that set, answered with a bundle whose first
\* entry is of another type, fetched the schema as well and returned the
\* second entry.
C7_Witness ==
    /\ call.op = "first"
    /\ C7_JohnOne(call.target)
    /\ call.err = "none"
    /\ Len(call.reqs) = 2
    /\ C7_Matches(call.body, "Patient") = {2}
    /\ call.result.live
    /\ call.result.data = [id |-> Str("7"), name |-> Str("john")]

\* the reference form of a value: the keys whose value is neither None nor ""
C8_Present(m) == [k \in {x \in DOMAIN m : m[x] \notin {None, Str("")}} |-> m[k]]

\* what serialize() is to give for a field value
RECURSIVE C8_Expected(_)
C8_Expected(v) ==
    CASE v.kind = "resource" ->
            Json(C8_Present([resource_type |-> Str(v.resource_type), id |-> v.id]))
      [] v.kind = "reference" ->
            Json(C8_Present([resource_type |-> v.resource_type, id |-> v.id,
                             display |-> v.display, resource |-> v.resource]))
      [] v.kind = "list" ->
            ListVal([i \in DOMAIN v.items |-> C8_Expected(v.items[i])])
      [] OTHER -> v

\* C8: to_dict() has every field of the field map; a Resource value is
\* given as the reference form of its resource_type and id, a Reference as
\* the attributes it has, and any other value as it is.
C8_SerializeRoundTrip ==
    call.op = "to_dict" =>
        /\ DOMAIN call.result.m = DOMAIN res.data
        /\ \A k \in DOMAIN res.data : call.result.m[k] = C8_Expected(res.data[k])

\* C8 witness: a resource constructed with an id and a Resource-valued
\* field was serialized.
C8_Witness ==
    /\ call.op = "to_dict"
    /\ res.data = [id |-> Str("5"), name |-> ResVal("Organization", Str("5"))]
    /\ call.result.m["name"]
          = Json([resource_type |-> Str("Organization"), id |-> Str("5")])

C9_Errors ==
    {"AuthorizationError", "ResourceNotFound", "OperationOutcome",
     "FieldNotInSchema"}

\* C9 (as claimed): an operation that raises one of the four errors leaves
\* the schema cache and the resource as they were and has made no write
\* that the server accepted.
C9_AllOrNothing ==
    [][ call'.err \in C9_Errors =>
            /\ schema' = schema
            /\ res' = res
            /\ \A i \in DOMAIN call'.reqs :
                  ~(call'.reqs[i].method \in {"post", "put", "delete"}
                       /\ call'.reqs[i].ok)
      ]_vars

\* the stores made so far for type t, in order
C10_Stores(t) == SelectSeq(hist.stores, LAMBDA e : e.rtype = t)

\* C10: with several callers in _fetch_schema, the entry of a type is at
\* every moment the set stored by the last write for that type.
C10_LastWriteWins ==
    \A t \in Types :
        C10_Stores(t) # <<>> =>
            /\ t \in DOMAIN schema
            /\ schema[t] = C10_Stores(t)[Len(C10_Stores(t))].value

\* C10 witness: two callers both found the entry of one type missing, both
\* fetched, and the second store replaced the set the first had stored.
C10_Witness ==
    \E t \in Types :
        /\ Len(C10_Stores(t)) = 2
        /\ C10_Stores(t)[1].caller # C10_Stores(t)[2].caller
        /\ {C10_Stores(t)[1].caller, C10_Stores(t)[2].caller} \subseteq hist.fetched
        /\ C10_Stores(t)[1].value # C10_Stores(t)[2].value
        /\ schema[t] = C10_Stores(t)[2].value

====
